---- MODULE Spec2Model ----
(***************************************************************************)
(* Model of the useGeminiLive hook (src/hooks/useGeminiLive.ts): the       *)
(* connection lifecycle, the frame gate of sendAudioData, the per-message  *)
(* dispatch of onmessage and the playback bookkeeping in audioRefs.        *)
(*                                                                         *)
(* One step of the model is one JavaScript task: a call of an entry point  *)
(* by the consumer, a transport callback, a React render or effect, an     *)
(* `ended` event of a playback source, or the advance of the audio clock.  *)
(* Promise reactions registered with .then run inside the task that        *)
(* settles the promise (or inside the registering task when the promise is *)
(* already settled), in registration order.                                *)
(***************************************************************************)
EXTENDS Integers, Sequences, FiniteSets, TLC

\* ---- bounds of the model ----
MaxConns == 2        \* connect calls made during one run
MaxSources == 3      \* playback sources created during one run
MaxTime == 2         \* last instant of the output clock
MaxReactions == 2    \* reactions queued on one pending connect promise
MaxText == 2         \* characters held by the transcription buffers of a run
SessionSources == 1  \* playback sources created during one run of Spec
SessionTime == 1     \* last instant of the output clock in Spec

NULL == 0
Conns == 1..MaxConns
SourceIds == 1..MaxSources
Durations == {1, 2}
ConnectionStates == {"idle", "connecting", "connected", "error", "disconnected"}

\* Text is a sequence of characters; " " is whitespace.
NoText == <<>>
Fragments == {<<"a">>, <<" ">>}

VARIABLES
  connectionState,   \* the React state cell written by setConnectionState
  exposed,           \* the value returned by the last render of the hook
  paramsRef,         \* paramsRef.current.connectionState
  effectPending,     \* a render has committed and its effect has not run yet
  transcriptionOnly, \* the transcriptionOnly prop (fixed for the instance)
  apiKey,            \* whether getAiInstance can build a client
  sessionPromiseRef, \* NULL or the connection whose promise the ref holds
  nConn,             \* number of ai.live.connect calls made so far
  ws,                \* per connection: state of the transport and of its promise
  reactions,         \* per connection: .then callbacks waiting on the promise
  inputT,            \* per connection: currentInputTranscription
  outputT,           \* per connection: currentOutputTranscription
  lastTurn,          \* the arguments of the last onTurnComplete call
  lastLive,          \* the argument of the last onLiveTranscript call
  newMessages,       \* what the consumer recorded at the last onTurnComplete call
  twin,              \* a second instance with transcriptionOnly off (text side)
  heard,             \* the letters each connection received in its current turn
  codec,             \* one run of the audio conversion helpers
  media,             \* LiveSession: the runs of its capture effect
  drill,             \* DrillSession: its state, attempt and transcript
  wire,              \* the frames passed to sendAudioData and those handed to a session
  nSrc,              \* number of playback sources created so far
  sources,           \* audioRefs.sources
  nextStartTime,     \* audioRefs.nextStartTime
  srcEnd,            \* per source: the instant its buffer finishes playing
  srcWaiting,        \* sources whose `ended` event has not been delivered
  currentTime,       \* outputAudioContext.currentTime
  speaking,          \* last value given to onAssistantSpeakingStateChange
  stopped,           \* stopSession was the last entry point the consumer called
  op,                \* the step taken last
  fx                 \* the observable effects of the step taken last

vars == <<connectionState, exposed, paramsRef, effectPending, transcriptionOnly,
          apiKey, sessionPromiseRef, nConn, ws, reactions, inputT,
          outputT, lastTurn, lastLive, newMessages, twin, heard, wire, codec, media, drill, nSrc, sources, nextStartTime, srcEnd, srcWaiting,
          currentTime, speaking, stopped, op, fx>>

reactVars == <<connectionState, exposed, paramsRef, effectPending>>
connVars == <<sessionPromiseRef, nConn, ws, reactions>>
turnVars == <<lastTurn, lastLive, newMessages>>
textVars == <<inputT, outputT, turnVars>>
audioVars == <<nSrc, sources, nextStartTime, srcEnd, srcWaiting, speaking>>
envVars == <<transcriptionOnly, apiKey>>
callVars == <<stopped>>
hookVars == <<reactVars, connVars, textVars, audioVars, envVars, callVars,
              currentTime, op, fx>>
auxVars == <<twin, heard, wire, codec, media, drill>>
exceptTwin == <<heard, wire, codec, media, drill>>
exceptHeard == <<twin, wire, codec, media, drill>>
exceptWire == <<twin, heard, codec, media, drill>>
exceptCodec == <<twin, heard, wire, media, drill>>
exceptMedia == <<twin, heard, wire, codec, drill>>
exceptDrill == <<twin, heard, wire, codec, media>>

\* The cursor of line 192 never caught up with the clock.
MaxKeepsCursor(a, b) == a

Max(a, b) == IF a >= b THEN a ELSE b

\* String.prototype.trim on a text: drop whitespace at both ends.
RECURSIVE TrimLeft(_)
TrimLeft(t) == IF t # <<>> /\ Head(t) = " " THEN TrimLeft(Tail(t)) ELSE t

RECURSIVE TrimRight(_)
TrimRight(t) ==
  IF t # <<>> /\ t[Len(t)] = " " THEN TrimRight(SubSeq(t, 1, Len(t) - 1)) ELSE t

Trim(t) == TrimRight(TrimLeft(t))

\* An inbound LiveServerMessage: the fields of serverContent the handler reads.
\* NoText stands for an absent transcription field, 0 for no inline audio.
Messages ==
  [inT : Fragments \cup {NoText}, outT : Fragments \cup {NoText},
   turnComplete : BOOLEAN, audio : Durations \cup {0}, interrupted : BOOLEAN]

CloseReaction == [kind |-> "close", frame |-> 0]
SendReaction(f) == [kind |-> "send", frame |-> f]

\* The sources on which stop() was called and whose `ended` event is still
\* to come: every source leaves audioRefs.sources either in its own `ended`
\* listener or by a stop() of stopSession or of an interruption.
SrcStopped == srcWaiting \ sources

\* The end instant of a source matters until its `ended` event is due: it
\* is forgotten for the sources in gone.
Forget(ends, gone) == [s \in SourceIds |-> IF s \in gone THEN 0 ELSE ends[s]]

\* The transport of a connection is "connecting" until the open
\* acknowledgment, then "open", "closing" once session.close() was called;
\* after an error it is "refused" (never opened) or "failing" (was open) until
\* the close acknowledgment makes it "closed".  "absent" is a connect attempt
\* whose promise rejected.
\* A connection the transport still holds: not yet acknowledged as closed.
Live(c) == ws[c] \in {"connecting", "open", "closing", "refused", "failing"}

\* The promise ai.live.connect returned for c, as the hook can observe it:
\* it resolves at the open acknowledgment and is unreachable once the close
\* acknowledgment has cleared the handle.
Promise(c) ==
  CASE ws[c] \in {"connecting", "refused"} -> "pending"
    [] ws[c] \in {"open", "closing", "failing"} -> "resolved"
    [] ws[c] = "absent" -> "rejected"
    [] OTHER -> "none"

\* handleTurnComplete without its tests for empty text.
handleTurnCompleteNoFilter(userText, assistantText) ==
  <<[role |-> "user", content |-> userText],
    [role |-> "assistant", content |-> assistantText]>>

\* handleTurnComplete of the Session component: the entries it adds to its
\* message list for one completed turn (none for an empty text).
handleTurnComplete(userText, assistantText) ==
  IF userText = NoText /\ assistantText = NoText
  THEN <<>>
  ELSE (IF userText # NoText
        THEN <<[role |-> "user", content |-> userText]>> ELSE <<>>)
         \o (IF assistantText # NoText
             THEN <<[role |-> "assistant", content |-> assistantText]>> ELSE <<>>)

\* The message of an ErrorEvent as a sequence of pieces: "entity" stands for
\* the text "Requested entity was not found.", "other" for any other text.
\* The empty sequence is an absent or empty message.
ErrorPieces == {"entity", "other"}
ErrorMessages == UNION {[1..n -> ErrorPieces] : n \in 0..2}

\* The marker text looked for only at the start of the message.
EntityNotFoundAtStart(e) == e # <<>> /\ e[1] = "entity"

\* e.message && e.message.includes("Requested entity was not found.")
EntityNotFound(e) == e # <<>> /\ \E i \in 1..Len(e) : e[i] = "entity"

\* No connection received a letter and no turn was emitted.
HeardInit == [in |-> [c \in Conns |-> 0], out |-> [c \in Conns |-> 0],
              by |-> NULL, turnIn |-> 0, turnOut |-> 0]

\* LiveSession before its capture effect ran: no run, no stream, no
\* pipeline, the three refs of lines 38-40 null.
MediaInit ==
  [nRun |-> 0, active |-> NULL, pending |-> {}, cleaned |-> {},
   streams |-> {}, pipelines |-> {},
   mediaStreamRef |-> NULL, scriptProcessorRef |-> NULL]

\* DrillSession with its media ready, before the first attempt: drillState
\* idle, finalTranscriptRef empty.  conn is the connection the startSession
\* call of the current attempt created (NULL when it created none) and from
\* the connections whose turns were appended to finalTranscriptRef.
DrillInit ==
  [state |-> "idle", attempt |-> 0, finalTranscript |-> <<>>, conn |-> NULL,
   from |-> {}, transcript |-> <<>>]

\* No conversion is running.
CodecIdle == [stage |-> "idle", x |-> <<>>, b |-> <<>>, s |-> <<>>, d |-> <<>>, y |-> <<>>]

\* No frame was passed to sendAudioData yet and none handed to a session.
WireInit == [passed |-> 0, sent |-> <<>>]

\* The text side of a hook instance created with transcriptionOnly off: the
\* two buffers of its onmessage closure, the arguments of its last
\* onTurnComplete and onLiveTranscript calls and the observer calls it made
\* in the step taken last.
TwinInit ==
  [inT |-> NoText, outT |-> NoText, turn |-> <<NoText, NoText>>,
   live |-> NoText, calls |-> {}]

HookInit ==
  /\ connectionState = "idle"
  /\ exposed = "idle"
  /\ paramsRef = "idle"
  /\ effectPending = FALSE
  /\ transcriptionOnly \in BOOLEAN
  /\ apiKey \in BOOLEAN
  /\ sessionPromiseRef = NULL
  /\ nConn = 0
  /\ ws = [c \in Conns |-> "none"]
  /\ reactions = [c \in Conns |-> <<>>]
  /\ inputT = [c \in Conns |-> <<>>]
  /\ outputT = [c \in Conns |-> <<>>]
  /\ lastTurn = <<NoText, NoText>>
  /\ lastLive = NoText
  /\ newMessages = <<>>
  /\ nSrc = 0
  /\ sources = {}
  /\ nextStartTime = 0
  /\ srcEnd = [s \in SourceIds |-> 0]
  /\ srcWaiting = {}
  /\ currentTime = 0
  /\ speaking = FALSE
  /\ stopped = FALSE
  /\ op = "init"
  /\ fx = {}

\* The hook after its first render, with no history recorded yet.
HistoryInit ==
  /\ twin = TwinInit
  /\ heard = HeardInit
  /\ wire = WireInit

\* The components that use the hook, before their first effect.
ComponentInit == media = MediaInit /\ drill = DrillInit

Init == HookInit /\ HistoryInit /\ ComponentInit /\ codec = CodecIdle

\* The hook body runs again: line 81 reads the state cell, line 294 returns it.
Render ==
  /\ ~effectPending
  /\ exposed # connectionState
  /\ exposed' = connectionState
  /\ effectPending' = TRUE
  /\ op' = "render"
  /\ fx' = {}
  /\ UNCHANGED <<connectionState, paramsRef, connVars, textVars, audioVars,
                 envVars, callVars, currentTime>>

\* The effect without dependencies copies the rendered values into paramsRef.
Effect ==
  /\ effectPending
  /\ paramsRef' = exposed
  /\ effectPending' = FALSE
  /\ op' = "effect"
  /\ fx' = {}
  /\ UNCHANGED <<connectionState, exposed, connVars, textVars, audioVars,
                 envVars, callVars, currentTime>>

\* session.close() that never reaches the transport.
CloseSocketIgnored(w) == w

\* session.close() on a resolved session: the transport starts closing.
CloseSocket(w) == IF w = "open" THEN "closing" ELSE w

\* stopSession without the cursor reset of line 145.
StopSessionKeepsCursor ==
  /\ LET c == sessionPromiseRef IN
       IF c = NULL
       THEN /\ fx' = {"speakingFalse"} \cup (IF sources # {} THEN {"stop"} ELSE {})
            /\ UNCHANGED <<ws, reactions>>
       ELSE CASE Promise(c) = "resolved" ->
                   /\ ws' = [ws EXCEPT ![c] = CloseSocket(@)]
                   /\ fx' = {"closeRegistered", "close", "speakingFalse"}
                              \cup (IF sources # {} THEN {"stop"} ELSE {})
                   /\ UNCHANGED reactions
              [] Promise(c) = "pending" ->
                   /\ Len(reactions[c]) < MaxReactions
                   /\ reactions' = [reactions EXCEPT ![c] = Append(@, CloseReaction)]
                   /\ fx' = {"closeRegistered", "speakingFalse"}
                              \cup (IF sources # {} THEN {"stop"} ELSE {})
                   /\ UNCHANGED ws
              [] OTHER ->
                   /\ fx' = {"closeRegistered", "speakingFalse"}
                              \cup (IF sources # {} THEN {"stop"} ELSE {})
                   /\ UNCHANGED <<ws, reactions>>
  /\ srcEnd' = Forget(srcEnd, sources)
  /\ sources' = {}
  /\ nextStartTime' = nextStartTime
  /\ speaking' = FALSE
  /\ connectionState' = "idle"
  /\ op' = "stopSession"
  /\ stopped' = TRUE
  /\ UNCHANGED <<exposed, paramsRef, effectPending, sessionPromiseRef, nConn,
                 textVars, nSrc, srcWaiting, envVars, currentTime>>

StopSession ==
  /\ LET c == sessionPromiseRef IN
       IF c = NULL
       THEN /\ fx' = {"speakingFalse"} \cup (IF sources # {} THEN {"stop"} ELSE {})
            /\ UNCHANGED <<ws, reactions>>
       ELSE CASE Promise(c) = "resolved" ->
                   /\ ws' = [ws EXCEPT ![c] = CloseSocket(@)]
                   /\ fx' = {"closeRegistered", "close", "speakingFalse"}
                              \cup (IF sources # {} THEN {"stop"} ELSE {})
                   /\ UNCHANGED reactions
              [] Promise(c) = "pending" ->
                   /\ Len(reactions[c]) < MaxReactions
                   /\ reactions' = [reactions EXCEPT ![c] = Append(@, CloseReaction)]
                   /\ fx' = {"closeRegistered", "speakingFalse"}
                              \cup (IF sources # {} THEN {"stop"} ELSE {})
                   /\ UNCHANGED ws
              [] OTHER ->
                   /\ fx' = {"closeRegistered", "speakingFalse"}
                              \cup (IF sources # {} THEN {"stop"} ELSE {})
                   /\ UNCHANGED <<ws, reactions>>
  /\ srcEnd' = Forget(srcEnd, sources)
  /\ sources' = {}
  /\ nextStartTime' = 0
  /\ speaking' = FALSE
  /\ connectionState' = "idle"
  /\ op' = "stopSession"
  /\ stopped' = TRUE
  /\ UNCHANGED <<exposed, paramsRef, effectPending, sessionPromiseRef, nConn,
                 textVars, nSrc, srcWaiting, envVars, currentTime>>

\* startSession without the early return of lines 152-154.
StartSessionNoGuard ==
  /\ op' = "startSession"
  /\ IF ~apiKey
     THEN /\ connectionState' = "error"
          /\ fx' = {"onApiKeyError"}
          /\ UNCHANGED <<connVars, textVars>>
     ELSE /\ nConn < MaxConns
          /\ LET c == nConn + 1 IN
               /\ nConn' = c
               /\ ws' = [ws EXCEPT ![c] = "connecting"]
               /\ reactions' = [reactions EXCEPT ![c] = <<>>]
               /\ inputT' = [inputT EXCEPT ![c] = <<>>]
               /\ outputT' = [outputT EXCEPT ![c] = <<>>]
               /\ sessionPromiseRef' = c
               /\ UNCHANGED turnVars
          /\ connectionState' = "connecting"
          /\ fx' = {"connect"}
  /\ stopped' = FALSE
  /\ UNCHANGED <<exposed, paramsRef, effectPending, audioVars, envVars, currentTime>>

\* startSession whose new closure inherits the buffers of the connection
\* before it instead of declaring fresh ones.
StartSessionInherits ==
  /\ op' = "startSession"
  /\ IF sessionPromiseRef # NULL
     THEN /\ fx' = {}
          /\ UNCHANGED <<connectionState, connVars, textVars>>
     ELSE IF ~apiKey
     THEN /\ connectionState' = "error"
          /\ fx' = {"onApiKeyError"}
          /\ UNCHANGED <<connVars, textVars>>
     ELSE /\ nConn < MaxConns
          /\ LET c == nConn + 1 IN
               /\ nConn' = c
               /\ ws' = [ws EXCEPT ![c] = "connecting"]
               /\ reactions' = [reactions EXCEPT ![c] = <<>>]
               /\ inputT' = [inputT EXCEPT ![c] = IF nConn = 0 THEN <<>> ELSE inputT[nConn]]
               /\ outputT' = [outputT EXCEPT ![c] = IF nConn = 0 THEN <<>> ELSE outputT[nConn]]
               /\ sessionPromiseRef' = c
               /\ UNCHANGED turnVars
          /\ connectionState' = "connecting"
          /\ fx' = {"connect"}
  /\ stopped' = FALSE
  /\ UNCHANGED <<exposed, paramsRef, effectPending, audioVars, envVars, currentTime>>

StartSession ==
  /\ op' = "startSession"
  /\ IF sessionPromiseRef # NULL
     THEN /\ fx' = {}
          /\ UNCHANGED <<connectionState, connVars, textVars>>
     ELSE IF ~apiKey
     THEN /\ connectionState' = "error"
          /\ fx' = {"onApiKeyError"}
          /\ UNCHANGED <<connVars, textVars>>
     ELSE /\ nConn < MaxConns
          /\ LET c == nConn + 1 IN
               /\ nConn' = c
               /\ ws' = [ws EXCEPT ![c] = "connecting"]
               /\ reactions' = [reactions EXCEPT ![c] = <<>>]
               /\ inputT' = [inputT EXCEPT ![c] = <<>>]
               /\ outputT' = [outputT EXCEPT ![c] = <<>>]
               /\ sessionPromiseRef' = c
               /\ UNCHANGED turnVars
          /\ connectionState' = "connecting"
          /\ fx' = {"connect"}
  /\ stopped' = FALSE
  /\ UNCHANGED <<exposed, paramsRef, effectPending, audioVars, envVars, currentTime>>

\* sendAudioData whose reaction overtakes the reactions already queued.
SendAudioDataOvertakes(f) ==
  /\ op' = "sendAudioData"
  /\ LET c == sessionPromiseRef IN
       IF paramsRef # "connected" \/ c = NULL
       THEN /\ fx' = {}
            /\ UNCHANGED reactions
       ELSE CASE Promise(c) = "resolved" ->
                   /\ fx' = {"send"}
                   /\ UNCHANGED reactions
              [] Promise(c) = "pending" ->
                   /\ Len(reactions[c]) < MaxReactions
                   /\ reactions' = [reactions EXCEPT ![c] = <<SendReaction(f)>> \o @]
                   /\ fx' = {"sendRegistered"}
              [] OTHER ->
                   /\ fx' = {"unhandledRejection"}
                   /\ UNCHANGED reactions
  /\ UNCHANGED <<reactVars, sessionPromiseRef, nConn, ws, textVars,
                 audioVars, envVars, callVars, currentTime>>

SendAudioData(f) ==
  /\ op' = "sendAudioData"
  /\ LET c == sessionPromiseRef IN
       IF paramsRef # "connected" \/ c = NULL
       THEN /\ fx' = {}
            /\ UNCHANGED reactions
       ELSE CASE Promise(c) = "resolved" ->
                   /\ fx' = {"send"}
                   /\ UNCHANGED reactions
              [] Promise(c) = "pending" ->
                   /\ Len(reactions[c]) < MaxReactions
                   /\ reactions' = [reactions EXCEPT ![c] = Append(@, SendReaction(f))]
                   /\ fx' = {"sendRegistered"}
              [] OTHER ->
                   /\ fx' = {"unhandledRejection"}
                   /\ UNCHANGED reactions
  /\ UNCHANGED <<reactVars, sessionPromiseRef, nConn, ws, textVars,
                 audioVars, envVars, callVars, currentTime>>

\* Kinds of the reactions queued on a promise.
Kinds(rs) == {rs[i].kind : i \in 1..Len(rs)}

\* onopen (line 165), then the connect promise resolves and the reactions
\* queued on it run in order: session.close() and session.sendRealtimeInput.
OnOpen(c) ==
  /\ ws[c] = "connecting"
  /\ connectionState' = "connected"
  /\ ws' = [ws EXCEPT ![c] = IF "close" \in Kinds(reactions[c]) THEN "closing" ELSE "open"]
  /\ reactions' = [reactions EXCEPT ![c] = <<>>]
  /\ op' = "onopen"
  /\ fx' = Kinds(reactions[c])
  /\ UNCHANGED <<exposed, paramsRef, effectPending, sessionPromiseRef, nConn,
                 textVars, audioVars, envVars, callVars, currentTime>>

\* The promise returned by ai.live.connect rejects: no transport exists and
\* no callback of this connection ever fires.  Queued close reactions are
\* skipped (their .catch logs); the rejection is unhandled when nothing is
\* queued on the promise or a send reaction, which has no handler, is.
Reject(c) ==
  /\ ws[c] = "connecting"
  /\ ws' = [ws EXCEPT ![c] = "absent"]
  /\ reactions' = [reactions EXCEPT ![c] = <<>>]
  /\ op' = "reject"
  /\ fx' = IF Kinds(reactions[c]) = {"close"} THEN {} ELSE {"unhandledRejection"}
  /\ UNCHANGED <<reactVars, sessionPromiseRef, nConn, textVars, audioVars,
                 envVars, callVars, currentTime>>

\* onerror followed by a reconnect made by the hook itself.
OnErrorRetries(c, credential) ==
  /\ ws[c] \in {"connecting", "open", "closing"}
  /\ nConn < MaxConns
  /\ nConn' = nConn + 1
  /\ ws' = [ws EXCEPT ![c] = IF @ = "connecting" THEN "refused" ELSE "failing",
                      ![nConn + 1] = "connecting"]
  /\ sessionPromiseRef' = nConn + 1
  /\ connectionState' = "connecting"
  /\ op' = "onerror"
  /\ fx' = {"connect"} \cup (IF credential THEN {"onApiKeyError"} ELSE {})
  /\ UNCHANGED <<exposed, paramsRef, effectPending,
                 reactions, textVars, audioVars, envVars, callVars, currentTime>>

\* onerror (lines 222-232); credential says whether the message contains
\* "Requested entity was not found.".  The transport closes after an error.
OnError(c, credential) ==
  /\ ws[c] \in {"connecting", "open", "closing"}
  /\ ws' = [ws EXCEPT ![c] = IF @ = "connecting" THEN "refused" ELSE "failing"]
  /\ connectionState' = "error"
  /\ op' = "onerror"
  /\ fx' = IF credential THEN {"onApiKeyError"} ELSE {}
  /\ UNCHANGED <<exposed, paramsRef, effectPending, sessionPromiseRef, nConn,
                 reactions, textVars, audioVars, envVars, callVars, currentTime>>

\* onclose without line 234: the handle is not cleared.
OnCloseKeepsHandle(c) ==
  /\ Live(c)
  /\ ws' = [ws EXCEPT ![c] = "closed"]
  /\ sessionPromiseRef' = sessionPromiseRef
  /\ connectionState' = "disconnected"
  /\ reactions' = [reactions EXCEPT ![c] = <<>>]
  /\ op' = "onclose"
  /\ fx' = {}
  /\ UNCHANGED <<exposed, paramsRef, effectPending, nConn, textVars,
                 audioVars, envVars, callVars, currentTime>>

\* onclose without line 235: connectionState is left as it was.
OnCloseKeepsState(c) ==
  /\ Live(c)
  /\ ws' = [ws EXCEPT ![c] = "closed"]
  /\ sessionPromiseRef' = NULL
  /\ connectionState' = connectionState
  /\ reactions' = [reactions EXCEPT ![c] = <<>>]
  /\ op' = "onclose"
  /\ fx' = {}
  /\ UNCHANGED <<exposed, paramsRef, effectPending, nConn, textVars,
                 audioVars, envVars, callVars, currentTime>>

\* onclose (lines 233-236).  The buffers of the closed connection keep what
\* they held (nothing resets them); the reactions still queued on a promise
\* that never resolved are dropped (no callback of a closed transport fires).
OnClose(c) ==
  /\ Live(c)
  /\ ws' = [ws EXCEPT ![c] = "closed"]
  /\ sessionPromiseRef' = NULL
  /\ connectionState' = "disconnected"
  /\ reactions' = [reactions EXCEPT ![c] = <<>>]
  /\ op' = "onclose"
  /\ fx' = {}
  /\ UNCHANGED <<exposed, paramsRef, effectPending, nConn, textVars,
                 audioVars, envVars, callVars, currentTime>>

\* The interrupted signal never acted upon.
InterruptedIgnored(m) == FALSE

\* The test of line 212: the interrupted signal stops the playback.
Interrupted(m) == m.interrupted /\ ~transcriptionOnly

\* The characters the buffers of all the connections hold once those of the
\* connection c hold in1 and out1.
RECURSIVE HeldBy(_)
HeldBy(n) == IF n = 0 THEN 0 ELSE Len(inputT[n]) + Len(outputT[n]) + HeldBy(n - 1)

Held(c, in1, out1) ==
  HeldBy(MaxConns) - (Len(inputT[c]) + Len(outputT[c])) + Len(in1) + Len(out1)

\* onmessage that forwards the live transcript only when playback is on.
OnMessageLiveMuted(c, m) ==
  /\ ws[c] \in {"open", "closing"}
  /\ LET appendOut == m.outT # NoText
         appendIn == m.outT = NoText /\ m.inT # NoText
         forward == appendIn /\ ~transcriptionOnly
         in1 == IF appendIn THEN inputT[c] \o m.inT ELSE inputT[c]
         out1 == IF appendOut THEN outputT[c] \o m.outT ELSE outputT[c]
         play == ~transcriptionOnly /\ m.audio # 0
         stopAll == Interrupted(m)
         s == nSrc + 1
         startAt == Max(nextStartTime, currentTime)
         sources1 == IF play THEN sources \cup {s} ELSE sources
     IN
       /\ Held(c, in1, out1) <= MaxText
       /\ play => nSrc < MaxSources
       /\ inputT' = [inputT EXCEPT ![c] = IF m.turnComplete THEN <<>> ELSE in1]
       /\ outputT' = [outputT EXCEPT ![c] = IF m.turnComplete THEN <<>> ELSE out1]
       /\ lastTurn' = IF m.turnComplete THEN <<Trim(in1), Trim(out1)>> ELSE lastTurn
       /\ lastLive' = IF forward THEN m.inT ELSE lastLive
       /\ newMessages' = IF m.turnComplete
                         THEN handleTurnComplete(Trim(in1), Trim(out1))
                         ELSE newMessages
       /\ nSrc' = IF play THEN s ELSE nSrc
       /\ srcEnd' = IF stopAll THEN Forget(srcEnd, sources1)
                    ELSE IF play THEN [srcEnd EXCEPT ![s] = startAt + m.audio]
                    ELSE srcEnd
       /\ srcWaiting' = IF play THEN srcWaiting \cup {s} ELSE srcWaiting
       /\ sources' = IF stopAll THEN {} ELSE sources1
       /\ nextStartTime' = IF stopAll THEN 0
                           ELSE IF play THEN startAt + m.audio ELSE nextStartTime
       /\ speaking' = IF stopAll THEN FALSE ELSE IF play THEN TRUE ELSE speaking
       /\ fx' = (IF forward THEN {"onLiveTranscript"} ELSE {})
                  \cup (IF m.turnComplete THEN {"onTurnComplete"} ELSE {})
                  \cup (IF play THEN {"speakingTrue", "start"} ELSE {})
                  \cup (IF stopAll THEN {"speakingFalse"} ELSE {})
                  \cup (IF stopAll /\ sources1 # {} THEN {"stop"} ELSE {})
  /\ op' = "onmessage"
  /\ UNCHANGED <<reactVars, connVars, envVars, callVars, currentTime>>

\* onmessage (lines 166-221) for a message of connection c.
OnMessage(c, m) ==
  /\ ws[c] \in {"open", "closing"}
  /\ LET appendOut == m.outT # NoText
         appendIn == m.outT = NoText /\ m.inT # NoText
         in1 == IF appendIn THEN inputT[c] \o m.inT ELSE inputT[c]
         out1 == IF appendOut THEN outputT[c] \o m.outT ELSE outputT[c]
         play == ~transcriptionOnly /\ m.audio # 0
         stopAll == Interrupted(m)
         s == nSrc + 1
         startAt == Max(nextStartTime, currentTime)
         sources1 == IF play THEN sources \cup {s} ELSE sources
     IN
       /\ Held(c, in1, out1) <= MaxText
       /\ play => nSrc < MaxSources
       /\ inputT' = [inputT EXCEPT ![c] = IF m.turnComplete THEN <<>> ELSE in1]
       /\ outputT' = [outputT EXCEPT ![c] = IF m.turnComplete THEN <<>> ELSE out1]
       /\ lastTurn' = IF m.turnComplete THEN <<Trim(in1), Trim(out1)>> ELSE lastTurn
       /\ lastLive' = IF appendIn THEN m.inT ELSE lastLive
       /\ newMessages' = IF m.turnComplete
                         THEN handleTurnComplete(Trim(in1), Trim(out1))
                         ELSE newMessages
       /\ nSrc' = IF play THEN s ELSE nSrc
       /\ srcEnd' = IF stopAll THEN Forget(srcEnd, sources1)
                    ELSE IF play THEN [srcEnd EXCEPT ![s] = startAt + m.audio]
                    ELSE srcEnd
       /\ srcWaiting' = IF play THEN srcWaiting \cup {s} ELSE srcWaiting
       /\ sources' = IF stopAll THEN {} ELSE sources1
       /\ nextStartTime' = IF stopAll THEN 0
                           ELSE IF play THEN startAt + m.audio ELSE nextStartTime
       /\ speaking' = IF stopAll THEN FALSE ELSE IF play THEN TRUE ELSE speaking
       /\ fx' = (IF appendIn THEN {"onLiveTranscript"} ELSE {})
                  \cup (IF m.turnComplete THEN {"onTurnComplete"} ELSE {})
                  \cup (IF play THEN {"speakingTrue", "start"} ELSE {})
                  \cup (IF stopAll THEN {"speakingFalse"} ELSE {})
                  \cup (IF stopAll /\ sources1 # {} THEN {"stop"} ELSE {})
  /\ op' = "onmessage"
  /\ UNCHANGED <<reactVars, connVars, envVars, callVars, currentTime>>

\* The `ended` listener without the test of line 201: it notifies false
\* whatever the active set still holds.
SourceEndedAlwaysNotifies(s) ==
  /\ s \in srcWaiting
  /\ s \in SrcStopped \/ currentTime >= srcEnd[s]
  /\ srcWaiting' = srcWaiting \ {s}
  /\ srcEnd' = Forget(srcEnd, {s})
  /\ sources' = sources \ {s}
  /\ speaking' = FALSE
  /\ fx' = {"speakingFalse"}
  /\ op' = "ended"
  /\ UNCHANGED <<reactVars, connVars, textVars, nSrc, nextStartTime,
                 envVars, callVars, currentTime>>

\* The `ended` listener of a source (lines 198-204).  The event is delivered
\* once, after the buffer has played to its end or stop() was called.
SourceEnded(s) ==
  /\ s \in srcWaiting
  /\ s \in SrcStopped \/ currentTime >= srcEnd[s]
  /\ srcWaiting' = srcWaiting \ {s}
  /\ srcEnd' = Forget(srcEnd, {s})
  /\ sources' = sources \ {s}
  /\ speaking' = IF sources' = {} THEN FALSE ELSE speaking
  /\ fx' = IF sources' = {} THEN {"speakingFalse"} ELSE {}
  /\ op' = "ended"
  /\ UNCHANGED <<reactVars, connVars, textVars, nSrc, nextStartTime,
                 envVars, callVars, currentTime>>

\* The output clock advances.
Tick ==
  /\ currentTime < MaxTime
  /\ currentTime' = currentTime + 1
  /\ op' = "tick"
  /\ fx' = {}
  /\ UNCHANGED <<reactVars, connVars, textVars, audioVars, envVars, callVars>>

\* The inputs one run of the session draws from: messages that carry the
\* turn-complete, audio and interrupted signals (no transcription text), and
\* one frame.
SessionMessages ==
  {m \in Messages : m.inT = NoText /\ m.outT = NoText /\ m.audio \in {0, 1}}
SessionFrames == {1}

Next ==
  \/ StartSession /\ UNCHANGED auxVars
  \/ StopSession /\ UNCHANGED auxVars
  \/ \E f \in SessionFrames : SendAudioData(f) /\ UNCHANGED auxVars
  \/ Render /\ UNCHANGED auxVars
  \/ Effect /\ UNCHANGED auxVars
  \/ \E c \in Conns : OnOpen(c) /\ UNCHANGED auxVars
  \/ \E c \in Conns : Reject(c) /\ UNCHANGED auxVars
  \/ \E c \in Conns, e \in ErrorMessages :
       OnError(c, EntityNotFound(e)) /\ UNCHANGED auxVars
  \/ \E c \in Conns : OnClose(c) /\ UNCHANGED auxVars
  \/ \E c \in Conns, m \in SessionMessages :
       /\ m.audio # 0 => nSrc < SessionSources
       /\ OnMessage(c, m)
       /\ UNCHANGED auxVars
  \/ \E s \in SourceIds : SourceEnded(s) /\ UNCHANGED auxVars
  \/ currentTime < SessionTime /\ Tick /\ UNCHANGED auxVars

Spec == Init /\ [][Next]_vars

\* ---------------------------------------------------------------------
\* Connection lifecycle
\* ---------------------------------------------------------------------

LiveConns == {c \in Conns : Live(c)}

\* C1: at most one streaming connection is pending or open at any time,
\* and a startSession call made while one is pending or open performs no
\* connect (so two calls in a row produce exactly one connect).
C1_OneConnection ==
  /\ [](Cardinality(LiveConns) <= 1)
  /\ [][(op' = "startSession" /\ LiveConns # {})
          => ("connect" \notin fx' /\ nConn' = nConn /\ ws' = ws)]_vars

\* A second startSession call returned early while the first connection
\* was still held by the transport.
C1_Witness ==
  /\ op = "startSession"
  /\ fx = {}
  /\ nConn = 1
  /\ LiveConns = {1}
  /\ sessionPromiseRef = 1

\* C2 (as claimed): every startSession call made while connectionState is
\* idle, error or disconnected opens a connection and sets the state to
\* connecting.  The client can be created (apiKey) in the case stated.
C2_StartOpensWhenNotActive ==
  [][(op' = "startSession" /\ apiKey
        /\ connectionState \notin {"connecting", "connected"}
        /\ exposed \notin {"connecting", "connected"})
       => ("connect" \in fx' /\ connectionState' = "connecting")]_vars

\* C3 (as claimed): a sendAudioData call made while the exposed
\* connectionState is not connected never leads to a transport send of that
\* frame: it is neither sent in the call nor queued on the connect promise.
C3_NoSendWhenNotConnected ==
  [][(op' = "sendAudioData" /\ exposed # "connected")
       => ("send" \notin fx' /\ reactions' = reactions)]_vars

StaleCallback == {"onopen", "onmessage"}

\* C4 (as claimed): after stopSession has returned and until startSession is
\* called again, an open acknowledgment or a message of the abandoned
\* connection does not set connectionState to connected and does not invoke
\* onTurnComplete or onLiveTranscript.
C4_StaleCallbacksDoNotAct ==
  [][(stopped /\ op' \in StaleCallback)
       => (/\ connectionState' # "connected"
           /\ "onTurnComplete" \notin fx'
           /\ "onLiveTranscript" \notin fx')]_vars

\* C5 (as claimed): after stopSession an audio fragment of an in-flight
\* message of the closing connection schedules no buffer, leaves the active
\* set empty and nextStartTime 0, and does not notify speaking true.
C5_EnqueueAfterTeardownIsNoOp ==
  [][(stopped /\ op' = "onmessage")
       => (/\ "start" \notin fx'
           /\ "speakingTrue" \notin fx'
           /\ sources' = {}
           /\ nextStartTime' = 0
           /\ nSrc' = nSrc)]_vars

\* The close of line 136 has been requested on the handle: called on the
\* session when the promise has resolved, queued on the promise while it is
\* pending (a rejected promise holds no session to close).
CloseRequested(c) ==
  /\ "closeRegistered" \in fx'
  /\ Promise(c) = "resolved" => ("close" \in fx' /\ ws'[c] # "open")
  /\ Promise(c) = "pending" =>
       (reactions'[c] # <<>> /\ reactions'[c][Len(reactions'[c])] = CloseReaction)

\* C6: when stopSession returns, whatever the state it was called in, every
\* active source has been stopped, the active set is empty, nextStartTime
\* is 0, the speaking observer has been told false, connectionState is idle,
\* the handle is kept and, if there is one, a close has been requested on it.
C6_StopPostcondition ==
  [][op' = "stopSession"
       => (/\ sources \subseteq SrcStopped'
           /\ sources' = {}
           /\ nextStartTime' = 0
           /\ "speakingFalse" \in fx'
           /\ speaking' = FALSE
           /\ connectionState' = "idle"
           /\ sessionPromiseRef' = sessionPromiseRef
           /\ sessionPromiseRef # NULL => CloseRequested(sessionPromiseRef))]_vars

\* stopSession returned on an open connection with a buffer playing.
C6_Witness ==
  /\ op = "stopSession"
  /\ {"close", "stop", "speakingFalse"} \subseteq fx
  /\ connectionState = "idle"
  /\ sessionPromiseRef # NULL
  /\ SrcStopped # {}

\* C7: stopSession called while connectionState is idle and no handle
\* exists requests no close, leaves connectionState idle and leaves the
\* active set empty and nextStartTime 0.
C7_StopWhenIdleIsNoOp ==
  [][(op' = "stopSession" /\ connectionState = "idle" /\ sessionPromiseRef = NULL)
       => (/\ "close" \notin fx'
           /\ "closeRegistered" \notin fx'
           /\ ws' = ws /\ reactions' = reactions
           /\ connectionState' = "idle"
           /\ sessionPromiseRef' = NULL
           /\ sources = {} /\ sources' = {}
           /\ nextStartTime = 0 /\ nextStartTime' = 0)]_vars

\* stopSession returned although a client could be created and startSession
\* never connected: it was called in the initial idle state.
C7_Witness ==
  /\ op = "stopSession"
  /\ apiKey
  /\ nConn = 0
  /\ connectionState = "idle"
  /\ sessionPromiseRef = NULL

\* The transport acknowledges a close that was requested or forced by a
\* failure.
AckClose(c) == ws[c] \in {"closing", "refused", "failing"} /\ OnClose(c)

\* The hook used in transcription-only mode (no playback source is ever
\* created), under a transport that settles every pending connect and
\* acknowledges every requested close.
FairInit == Init /\ transcriptionOnly

FairNext ==
  \/ StartSession /\ UNCHANGED auxVars
  \/ StopSession /\ UNCHANGED auxVars
  \/ \E f \in SessionFrames : SendAudioData(f) /\ UNCHANGED auxVars
  \/ Render /\ UNCHANGED auxVars
  \/ Effect /\ UNCHANGED auxVars
  \/ \E c \in Conns : OnOpen(c) /\ UNCHANGED auxVars
  \/ \E c \in Conns : Reject(c) /\ UNCHANGED auxVars
  \/ \E c \in Conns, e \in ErrorMessages :
       OnError(c, EntityNotFound(e)) /\ UNCHANGED auxVars
  \/ \E c \in Conns : OnClose(c) /\ UNCHANGED auxVars
  \/ \E c \in Conns, m \in SessionMessages : OnMessage(c, m) /\ UNCHANGED auxVars
  \/ currentTime < SessionTime /\ Tick /\ UNCHANGED auxVars

FairSpec ==
  /\ FairInit /\ [][FairNext]_vars
  /\ \A c \in Conns : /\ WF_vars(OnOpen(c) /\ UNCHANGED auxVars)
                       /\ WF_vars(AckClose(c) /\ UNCHANGED auxVars)

\* C8: if stopSession is called while a connection is pending or open then
\* (the transport resolving the connection and acknowledging the close) the
\* close is requested on that connection once it has resolved, the
\* connection ends closed, the close acknowledgment sets connectionState to
\* disconnected and clears the handle, and a startSession call made with the
\* handle cleared opens a new connection.
C8_StopThenCloseThenRestart ==
  /\ [][\A c \in Conns :
          (ws[c] = "connecting" /\ ws'[c] \in {"open", "closing"}
             /\ "close" \in Kinds(reactions[c]))
            => ("close" \in fx' /\ ws'[c] = "closing")]_vars
  /\ \A c \in Conns :
       (stopped /\ sessionPromiseRef = c /\ Promise(c) # "rejected")
         ~> (ws[c] = "closed" \/ Promise(c) = "rejected")
  /\ [][op' = "onclose"
          => (connectionState' = "disconnected" /\ sessionPromiseRef' = NULL)]_vars
  /\ [][(op' = "startSession" /\ sessionPromiseRef = NULL /\ apiKey)
          => ("connect" \in fx' /\ sessionPromiseRef' = nConn'
                /\ ws'[nConn'] = "connecting" /\ nConn' = nConn + 1)]_vars

\* A connection stopped while it was pending has resolved and the queued
\* close was requested on it.
C8_Witness ==
  /\ op = "onopen"
  /\ stopped
  /\ "close" \in fx
  /\ \E c \in Conns : sessionPromiseRef = c /\ ws[c] = "closing"

\* C9 (as claimed): connectionState enters connected only by the open
\* acknowledgment arriving while connectionState is connecting.
C9_ConnectedOnlyFromConnecting ==
  [][(connectionState # "connected" /\ connectionState' = "connected")
       => (op' = "onopen" /\ connectionState = "connecting")]_vars

TransportEvents == {"onopen", "onmessage", "onerror", "onclose"}

\* C10 (as claimed): once connectionState is error or disconnected no
\* transport event of the connection changes it; only startSession and
\* stopSession do.
C10_ErrorAndDisconnectedTerminal ==
  [][(connectionState \in {"error", "disconnected"} /\ op' \in TransportEvents)
       => connectionState' = connectionState]_vars

\* C11: after an error or a close the hook opens no connection on its own:
\* every connect is made inside a startSession call, one connect per call,
\* and no other step creates a connection or makes one pending.
C11_NoAutoReconnect ==
  [][(nConn' # nConn \/ "connect" \in fx'
        \/ \E c \in Conns : ws[c] # "connecting" /\ ws'[c] = "connecting")
       => (/\ op' = "startSession"
           /\ "connect" \in fx'
           /\ nConn' = nConn + 1
           /\ ws'[nConn'] = "connecting"
           /\ \A c \in Conns \ {nConn'} : ws'[c] = ws[c])]_vars

\* The first connection failed and was closed; nothing reconnected until
\* the consumer called startSession again.
C11_Witness ==
  /\ op = "startSession"
  /\ "connect" \in fx
  /\ nConn = 2
  /\ ws[1] = "closed"
  /\ ws[2] = "connecting"

\* ---------------------------------------------------------------------
\* Transcription turns
\* ---------------------------------------------------------------------

\* The text dispatch of onmessage (lines 167-184) in the twin instance.
TwinMessage(m) ==
  LET appendOut == m.outT # NoText
      appendIn == m.outT = NoText /\ m.inT # NoText
      in1 == IF appendIn THEN twin.inT \o m.inT ELSE twin.inT
      out1 == IF appendOut THEN twin.outT \o m.outT ELSE twin.outT
  IN twin' = [inT |-> IF m.turnComplete THEN NoText ELSE in1,
              outT |-> IF m.turnComplete THEN NoText ELSE out1,
              turn |-> IF m.turnComplete THEN <<Trim(in1), Trim(out1)>> ELSE twin.turn,
              live |-> IF appendIn THEN m.inT ELSE twin.live,
              calls |-> (IF appendIn THEN {"onLiveTranscript"} ELSE {})
                          \cup (IF m.turnComplete THEN {"onTurnComplete"} ELSE {})]

\* A step in which the twin calls no transcript observer.
TwinQuiet == twin' = [twin EXCEPT !.calls = {}]

\* A step that creates (startSession, lines 157-158) or drops (onclose) the
\* onmessage closure of the twin together with its two buffers.
TwinFresh == twin' = [twin EXCEPT !.inT = NoText, !.outT = NoText, !.calls = {}]

\* The messages of a conversation: transcription fragments of both sides and
\* the turn-complete signal, alone or with audio of duration 1 or with the
\* interrupted signal.
TurnMessages == {m \in Messages : m.audio = 0 \/ (m.audio = 1 /\ ~m.interrupted)}

\* The hook in transcription-only mode with a client at hand, run side by
\* side with the twin: both get the same calls, transport events and messages.
\* The transport closes a connection between two turns (BufferSpec has the
\* connections that close in the middle of a turn).
TurnInit == Init /\ transcriptionOnly /\ apiKey

TurnNext ==
  \/ StartSession /\ (IF nConn' # nConn THEN TwinFresh ELSE TwinQuiet) /\ UNCHANGED exceptTwin
  \/ StopSession /\ TwinQuiet /\ UNCHANGED exceptTwin
  \/ \E c \in Conns : OnOpen(c) /\ TwinQuiet /\ UNCHANGED exceptTwin
  \/ \E c \in Conns :
       /\ inputT[c] = NoText /\ outputT[c] = NoText
       /\ OnClose(c) /\ TwinFresh /\ UNCHANGED exceptTwin
  \/ \E c \in Conns, m \in TurnMessages :
       OnMessage(c, m) /\ TwinMessage(m) /\ UNCHANGED exceptTwin

TurnSpec == TurnInit /\ [][TurnNext]_vars

\* C12 (as claimed): every fragment a message carries is appended to the
\* buffer of its side, and a turn-complete signal hands onTurnComplete the
\* trimmed concatenation, in arrival order, of all the input fragments and
\* of all the output fragments received since the previous turn-complete,
\* leaving both buffers empty.
C12_TurnAccumulation ==
  [][\A c \in Conns, m \in TurnMessages :
       OnMessage(c, m) =>
         LET allIn == inputT[c] \o m.inT
             allOut == outputT[c] \o m.outT
         IN IF m.turnComplete
            THEN /\ "onTurnComplete" \in fx'
                 /\ lastTurn' = <<Trim(allIn), Trim(allOut)>>
                 /\ inputT'[c] = NoText
                 /\ outputT'[c] = NoText
            ELSE /\ "onTurnComplete" \notin fx'
                 /\ inputT'[c] = allIn
                 /\ outputT'[c] = allOut]_vars

\* The turn-complete messages that carry no text but whitespace.
BlankTurnMessages ==
  {m \in [inT : {NoText, <<" ">>}, outT : {NoText, <<" ">>},
          turnComplete : {TRUE}, audio : {0, 1}, interrupted : BOOLEAN] :
     m \in TurnMessages}

\* The connection c is open and both its buffers are empty after trimming:
\* with a message that brings no text but whitespace, so are both
\* accumulated texts.
EmptyTurn(c) ==
  /\ ws[c] \in {"open", "closing"}
  /\ Trim(inputT[c]) = NoText
  /\ Trim(outputT[c]) = NoText

\* C13 (as claimed): a turn-complete signal that arrives while both
\* accumulated texts are empty after trimming does not invoke onTurnComplete.
C13_NoCallbackForEmptyTurn ==
  [][op' = "onmessage" =>
       \A c \in Conns :
         EmptyTurn(c) =>
           \A m \in BlankTurnMessages :
             OnMessage(c, m)
               => "onTurnComplete" \notin fx']_vars

\* C13 (amended): a turn-complete signal that arrives while both accumulated
\* texts are empty after trimming still invokes onTurnComplete, with two
\* empty strings, and clears both buffers; the consumer's handler then
\* records no entry, so no turn is emitted.
C13_EmptyTurnRecordsNothing ==
  [][op' = "onmessage" =>
       \A c \in Conns :
         EmptyTurn(c) =>
           \A m \in BlankTurnMessages :
             OnMessage(c, m)
               => (/\ "onTurnComplete" \in fx'
                   /\ lastTurn' = <<NoText, NoText>>
                   /\ newMessages' = <<>>
                   /\ inputT'[c] = NoText
                   /\ outputT'[c] = NoText)]_vars

\* onTurnComplete was called with two empty strings after a turn that held
\* only whitespace, and the consumer recorded nothing.
C13_Witness ==
  /\ op = "onmessage"
  /\ "onTurnComplete" \in fx
  /\ lastTurn = <<NoText, NoText>>
  /\ lastLive = <<" ">>
  /\ newMessages = <<>>

\* C14 (as claimed): an input fragment is appended to the user buffer and
\* forwarded at once, exactly once, to onLiveTranscript whatever else its
\* message carries; a message without an input fragment forwards nothing.
C14_InputFragmentForwarded ==
  [][\A c \in Conns, m \in TurnMessages :
       OnMessage(c, m) =>
         IF m.inT # NoText
         THEN /\ "onLiveTranscript" \in fx'
              /\ lastLive' = m.inT
              /\ inputT'[c] = IF m.turnComplete THEN NoText ELSE inputT[c] \o m.inT
              /\ m.turnComplete => lastTurn'[1] = Trim(inputT[c] \o m.inT)
         ELSE /\ "onLiveTranscript" \notin fx'
              /\ lastLive' = lastLive]_vars

TextCalls == {"onTurnComplete", "onLiveTranscript"}

\* C20: in transcription-only mode no playback source is ever created and
\* the speaking observer is never told true, and for the same calls, events
\* and messages the hook makes the same onTurnComplete and onLiveTranscript
\* calls, with the same arguments, as the instance with the mode off.
C20_TranscriptionOnlyEquivalent ==
  /\ [](transcriptionOnly
          => (/\ nSrc = 0 /\ sources = {} /\ srcWaiting = {}
              /\ ~speaking
              /\ fx \cap {"speakingTrue", "start"} = {}))
  /\ [](transcriptionOnly
          => (/\ fx \cap TextCalls = twin.calls
              /\ lastTurn = twin.turn
              /\ lastLive = twin.live))

\* In transcription-only mode a turn with text on both sides was completed
\* and reported by both instances.
C20_Witness ==
  /\ transcriptionOnly
  /\ op = "onmessage"
  /\ "onTurnComplete" \in fx
  /\ lastTurn = <<(<<"a">>), (<<"a">>)>>
  /\ twin.turn = lastTurn
  /\ lastLive = <<"a">>
  /\ nSrc = 0

\* ---------------------------------------------------------------------
\* Playback
\* ---------------------------------------------------------------------

\* The messages of a spoken answer: audio of either duration, the
\* interrupted signal, or both; no transcription text.
PlaybackMessages ==
  {m \in Messages : m.inT = NoText /\ m.outT = NoText /\ ~m.turnComplete}

\* The hook with a client at hand, driven by the consumer's calls, the open
\* and close acknowledgments, audio messages, `ended` events and the clock.
PlaybackInit == Init /\ apiKey

PlaybackNext ==
  \/ StartSession /\ UNCHANGED auxVars
  \/ StopSession /\ UNCHANGED auxVars
  \/ \E c \in Conns : OnOpen(c) /\ UNCHANGED auxVars
  \/ \E c \in Conns : OnClose(c) /\ UNCHANGED auxVars
  \/ \E c \in Conns, m \in PlaybackMessages : OnMessage(c, m) /\ UNCHANGED auxVars
  \/ \E s \in SourceIds : SourceEnded(s) /\ UNCHANGED auxVars
  \/ Tick /\ UNCHANGED auxVars

PlaybackSpec == PlaybackInit /\ [][PlaybackNext]_vars

\* The instant the chunk scheduled last stops sounding: the end of its
\* buffer while it is queued or playing, and no later than now once it has
\* ended or was stopped (0 before the first chunk).
PreviousEnd == IF nSrc = 0 THEN 0 ELSE srcEnd[nSrc]

\* C15: chunks are scheduled in arrival order, gaplessly and without
\* overlap: a chunk starts at the later of the output clock at the moment it
\* is started and the end of the chunk scheduled before it, and never before
\* the end of a chunk that is still active.
C15_GaplessNoOverlap ==
  [][\A c \in Conns, m \in PlaybackMessages :
       (OnMessage(c, m) /\ ~transcriptionOnly /\ m.audio # 0 /\ ~m.interrupted)
         => LET s == nSrc + 1
                start == srcEnd'[s] - m.audio
            IN /\ nSrc' = s
               /\ sources' = sources \cup {s}
               /\ "start" \in fx'
               /\ start >= currentTime
               /\ start >= PreviousEnd
               /\ start \in {currentTime, PreviousEnd}
               /\ \A t \in sources : srcEnd[t] <= start
               /\ nextStartTime' = srcEnd'[s]]_vars

\* Three chunks of durations 1, 2 and 1 arrived before the clock moved: they
\* start at 0, 1 and 3 and end at 1, 3 and 4.
C15_Witness ==
  /\ op = "onmessage"
  /\ currentTime = 0
  /\ sources = {1, 2, 3}
  /\ srcEnd[1] = 1 /\ srcEnd[2] = 3 /\ srcEnd[3] = 4
  /\ nextStartTime = 4

\* C16 (as claimed): after a message carrying the interrupted signal has
\* been handled, every source that was active has been stopped, the active
\* set is empty, nextStartTime is 0 and the speaking observer has been told
\* false.
C16_InterruptClearsPlayback ==
  [][\A c \in Conns, m \in PlaybackMessages :
       (OnMessage(c, m) /\ m.interrupted)
         => (/\ sources \subseteq SrcStopped'
             /\ sources' = {}
             /\ nextStartTime' = 0
             /\ "speakingFalse" \in fx'
             /\ speaking' = FALSE)]_vars

\* C16 (amended): outside transcription-only mode, after a message carrying
\* the interrupted signal has been handled every source that was active has
\* been stopped, the active set is empty, nextStartTime is 0 and the speaking
\* observer has been told false, for any number of unfinished buffers; in
\* transcription-only mode the signal is ignored: there is no playback (the
\* set is empty and nextStartTime is 0) and the observer is not notified.
C16_InterruptClearsPlaybackWhenOn ==
  [][\A c \in Conns, m \in PlaybackMessages :
       (OnMessage(c, m) /\ m.interrupted)
         => IF transcriptionOnly
            THEN /\ sources = {} /\ sources' = {}
                 /\ nextStartTime' = 0
                 /\ fx' = {}
            ELSE /\ sources \subseteq SrcStopped'
                 /\ sources' = {}
                 /\ nextStartTime' = 0
                 /\ "speakingFalse" \in fx'
                 /\ speaking' = FALSE]_vars

\* Three buffers were enqueued and none had finished when the interrupted
\* signal stopped them all.
C16_Witness ==
  /\ op = "onmessage"
  /\ {"stop", "speakingFalse"} \subseteq fx
  /\ SrcStopped = {1, 2, 3}
  /\ sources = {}
  /\ nextStartTime = 0
  /\ ~speaking

\* C17 (as claimed): the speaking observer is told true only for a chunk
\* that arrives while the active set is empty, once per run of chunks, and
\* is told false when the natural end of a chunk leaves the set empty.
C17_SpeakingTrueOncePerRun ==
  /\ [][(op' = "onmessage" /\ "speakingTrue" \in fx') => sources = {}]_vars
  /\ [][(op' = "ended" /\ sources # {} /\ sources' = {})
          => ("speakingFalse" \in fx' /\ ~speaking')]_vars

\* ---------------------------------------------------------------------
\* Failures
\* ---------------------------------------------------------------------

\* C18: every inbound transport error sets connectionState to error, and
\* the credential-error observer is invoked exactly when the message of the
\* error contains "Requested entity was not found."; an error with any other
\* message, or none, never invokes it.
C18_ErrorHandling ==
  [][op' = "onerror" =>
       \A c \in Conns :
         ws'[c] # ws[c] =>
           \A e \in ErrorMessages :
             OnError(c, EntityNotFound(e))
               => (/\ connectionState' = "error"
                   /\ "onApiKeyError" \in fx' <=> (\E i \in DOMAIN e : e[i] = "entity")
                   /\ sessionPromiseRef' = sessionPromiseRef)]_vars

\* An error whose message contains the marker text arrived on an open
\* connection and the credential-error observer was invoked.
C18_Witness ==
  /\ op = "onerror"
  /\ connectionState = "error"
  /\ fx = {"onApiKeyError"}
  /\ \E c \in Conns : ws[c] = "failing"

\* C19 (as claimed): a failure to create the client or to connect makes
\* startSession end with connectionState error and no handle retained, and
\* no entry point raises an exception or leaves a rejection unhandled.
C19_FailuresBecomeState ==
  /\ [][(op' = "startSession" /\ sessionPromiseRef = NULL /\ ~apiKey)
          => (connectionState' = "error" /\ sessionPromiseRef' = NULL)]_vars
  /\ [][op' = "reject"
          => (/\ connectionState' = "error"
              /\ sessionPromiseRef' = NULL
              /\ "unhandledRejection" \notin fx')]_vars
  /\ [][op' \in {"stopSession", "sendAudioData"}
          => "unhandledRejection" \notin fx']_vars

\* ---------------------------------------------------------------------
\* Outbound frames
\* ---------------------------------------------------------------------

MaxFrames == 3       \* frames passed to sendAudioData during one run

\* sendAudioData was called with the frame f: it is handed to the session in
\* the call when the .then of line 265 finds the promise resolved.
WireSend(f) ==
  wire' = [passed |-> f,
           sent |-> IF "send" \in fx'
                    THEN Append(wire.sent, <<sessionPromiseRef, f>>)
                    ELSE wire.sent]

\* The send reactions queued on the promise of c, in the order they run.
RECURSIVE QueuedFrames(_, _)
QueuedFrames(c, rs) ==
  IF rs = <<>> THEN <<>>
  ELSE (IF Head(rs).kind = "send" THEN <<(<<c, Head(rs).frame>>)>> ELSE <<>>)
         \o QueuedFrames(c, Tail(rs))

\* The promise of c resolves: the queued reactions hand their frames over.
WireFlush(c) == wire' = [wire EXCEPT !.sent = @ \o QueuedFrames(c, reactions[c])]

\* The hook in transcription-only mode with a client at hand, fed with the
\* frames 1, 2, 3, ... in capture order.
FrameInit == Init /\ transcriptionOnly /\ apiKey

FrameNext ==
  \/ StartSession /\ UNCHANGED auxVars
  \/ StopSession /\ UNCHANGED auxVars
  \/ /\ wire.passed < MaxFrames
     /\ SendAudioData(wire.passed + 1)
     /\ WireSend(wire.passed + 1)
     /\ UNCHANGED exceptWire
  \/ Render /\ UNCHANGED auxVars
  \/ Effect /\ UNCHANGED auxVars
  \/ \E c \in Conns : OnOpen(c) /\ WireFlush(c) /\ UNCHANGED exceptWire
  \/ \E c \in Conns, e \in ErrorMessages :
       OnError(c, EntityNotFound(e)) /\ UNCHANGED auxVars
  \/ \E c \in Conns : OnClose(c) /\ UNCHANGED auxVars

FrameSpec == FrameInit /\ [][FrameNext]_vars

\* The frames handed to the session of the connection c, in order.
SentOn(c) == SelectSeq(wire.sent, LAMBDA x : x[1] = c)

\* C21: the frames transmitted on a connection are frames passed to
\* sendAudioData, in the order they were passed, and no frame is transmitted
\* twice, on the same or on another connection.
C21_FramesInOrder ==
  /\ \A i \in DOMAIN wire.sent : wire.sent[i][2] \in 1..wire.passed
  /\ \A c \in Conns :
       \A i, j \in DOMAIN SentOn(c) : i < j => SentOn(c)[i][2] < SentOn(c)[j][2]
  /\ \A i, j \in DOMAIN wire.sent : i # j => wire.sent[i][2] # wire.sent[j][2]

\* Frame 1 was dropped; frames 2 and 3 were queued on the pending promise of
\* the second connection and handed over, in order, when it resolved.
C21_Witness ==
  /\ op = "onopen"
  /\ wire.passed = 3
  /\ wire.sent = <<(<<2, 2>>), (<<2, 3>>)>>

\* ---------------------------------------------------------------------
\* The turn buffers of one connection
\* ---------------------------------------------------------------------

\* The letters of a text (its characters other than blanks).
RECURSIVE Letters(_)
Letters(t) ==
  IF t = <<>> THEN 0
  ELSE (IF Head(t) = " " THEN 0 ELSE 1) + Letters(Tail(t))

\* The connection c received the message m: the letters of its fragments
\* count for the current turn of c, and a turn-complete signal closes the turn.
HeardMessage(c, m) ==
  LET in1 == heard.in[c] + Letters(m.inT)
      out1 == heard.out[c] + Letters(m.outT)
  IN heard' = IF m.turnComplete
              THEN [in |-> [heard.in EXCEPT ![c] = 0],
                    out |-> [heard.out EXCEPT ![c] = 0],
                    by |-> c, turnIn |-> in1, turnOut |-> out1]
              ELSE [heard EXCEPT !.in[c] = in1, !.out[c] = out1]

\* Messages that carry a letter for one side, for both, or for none, with or
\* without the turn-complete signal.
BufferMessages ==
  {m \in Messages : /\ m.audio = 0 /\ ~m.interrupted
                    /\ m.inT \in {NoText, <<"a">>} /\ m.outT \in {NoText, <<"a">>}
                    /\ (m.inT # NoText \/ m.outT # NoText \/ m.turnComplete)}

\* The hook in transcription-only mode with a client at hand; connections
\* end by a stop, by an error or by a close of the transport.
BufferInit == Init /\ transcriptionOnly /\ apiKey

BufferNext ==
  \/ StartSession /\ UNCHANGED auxVars
  \/ StopSession /\ UNCHANGED auxVars
  \/ \E c \in Conns : OnOpen(c) /\ UNCHANGED auxVars
  \/ \E c \in Conns, e \in ErrorMessages :
       OnError(c, EntityNotFound(e)) /\ UNCHANGED auxVars
  \/ \E c \in Conns : OnClose(c) /\ UNCHANGED auxVars
  \/ \E c \in Conns, m \in BufferMessages :
       OnMessage(c, m) /\ HeardMessage(c, m) /\ UNCHANGED exceptHeard

BufferSpec == BufferInit /\ [][BufferNext]_vars

\* C22: a turn emitted by a connection holds no more letters than that
\* connection received since its previous turn (text left in the buffers of
\* an earlier connection never shows up in it), and a connection that has
\* not opened yet has both buffers empty.
C22_BuffersPerConnection ==
  /\ heard.by # NULL =>
       /\ Letters(lastTurn[1]) <= heard.turnIn
       /\ Letters(lastTurn[2]) <= heard.turnOut
  /\ \A c \in Conns :
       ws[c] \in {"none", "connecting"} => inputT[c] = NoText /\ outputT[c] = NoText

\* The first connection was closed with a letter left in its input buffer,
\* and the second connection emitted a turn without any text.
C22_Witness ==
  /\ op = "onmessage"
  /\ ws[1] = "closed"
  /\ Letters(inputT[1]) = 1
  /\ heard.by = 2
  /\ lastTurn = <<NoText, NoText>>

\* ---------------------------------------------------------------------
\* The audio conversion helpers (lines 8-57)
\* ---------------------------------------------------------------------

MaxSamples == 1      \* samples of one Float32Array
MaxBytes == 3        \* bytes of one Uint8Array

\* A sample is a number of [-1, 1] written as a multiple of 1/65536 (half a
\* step of the 16-bit scale): the numerator k stands for k / 65536.
Unit == 65536
Samples == {-Unit, 1 - Unit, -3, -1, 0, 1, 3, Unit - 1, Unit}
SampleArrays == UNION {[1..n -> Samples] : n \in 0..MaxSamples}

\* Byte arrays in which one position takes every value and the others one of
\* the two extreme values.
ByteArrays ==
  {<<>>} \cup
  UNION {{[j \in 1..n |-> IF j = i THEN v ELSE rest[j]] :
            i \in 1..n, v \in 0..255, rest \in [1..n -> {0, 255}]} : n \in 1..MaxBytes}

Abs(k) == IF k < 0 THEN -k ELSE k

\* Storing the number k / 2 into an Int16Array element: the fraction is
\* dropped (towards zero) and the integer is taken modulo 2^16 into
\* -32768..32767.
ToInt16(k) ==
  LET q == IF k >= 0 THEN k \div 2 ELSE -((-k) \div 2)
  IN ((q + 32768) % 65536) - 32768

\* The two bytes of a 16-bit integer as a Uint8Array view of the same buffer
\* shows them (low byte first).
Int16Bytes(v) == LET u == v % 65536 IN <<u % 256, u \div 256>>

\* The 16-bit integer an Int16Array view reads from two bytes.
BytesInt16(lo, hi) == LET u == hi * 256 + lo IN IF u >= 32768 THEN u - 65536 ELSE u

\* btoa on a binary string (a sequence of character codes 0..255): three
\* characters make four sextets, the last group is padded with '=' (64).
RECURSIVE btoa(_)
btoa(bin) ==
  IF bin = <<>> THEN <<>>
  ELSE IF Len(bin) = 1
       THEN <<bin[1] \div 4, (bin[1] % 4) * 16, 64, 64>>
  ELSE IF Len(bin) = 2
       THEN <<bin[1] \div 4, (bin[1] % 4) * 16 + bin[2] \div 16, (bin[2] % 16) * 4, 64>>
  ELSE <<bin[1] \div 4, (bin[1] % 4) * 16 + bin[2] \div 16,
         (bin[2] % 16) * 4 + bin[3] \div 64, bin[3] % 64>>
         \o btoa(SubSeq(bin, 4, Len(bin)))

\* atob that decodes the complete groups only.
RECURSIVE atobWholeGroups(_)
atobWholeGroups(text) ==
  IF text = <<>> THEN <<>>
  ELSE IF text[3] = 64 \/ text[4] = 64 THEN <<>>
  ELSE <<text[1] * 4 + text[2] \div 16, (text[2] % 16) * 16 + text[3] \div 4,
         (text[3] % 4) * 64 + text[4]>>
         \o atobWholeGroups(SubSeq(text, 5, Len(text)))

\* atob on base64 text made of groups of four sextets.
RECURSIVE atob(_)
atob(text) ==
  IF text = <<>> THEN <<>>
  ELSE IF text[3] = 64 THEN <<text[1] * 4 + text[2] \div 16>>
  ELSE IF text[4] = 64
       THEN <<text[1] * 4 + text[2] \div 16, (text[2] % 16) * 16 + text[3] \div 4>>
  ELSE <<text[1] * 4 + text[2] \div 16, (text[2] % 16) * 16 + text[3] \div 4,
         (text[3] % 4) * 64 + text[4]>>
         \o atob(SubSeq(text, 5, Len(text)))

\* encode (lines 8-15): one character per byte, then btoa.
encode(bytes) == btoa([i \in 1..Len(bytes) |-> bytes[i] % 65536])

\* decode (lines 17-25): atob, then one byte per character code.
decode(base64) == LET binaryString == atob(base64)
                  IN [i \in 1..Len(binaryString) |-> binaryString[i] % 256]

\* The bytes of the Int16Array createBlob fills (lines 47-51).
RECURSIVE Int16Buffer(_)
Int16Buffer(data) ==
  IF data = <<>> THEN <<>>
  ELSE Int16Bytes(ToInt16(Head(data))) \o Int16Buffer(Tail(data))

\* createBlob (lines 46-57): the data field of the blob.
createBlob(data) == encode(Int16Buffer(data))

\* decodeAudioData (lines 27-44) for one channel: the samples of the buffer,
\* int16 / 32768 written as numerators over 65536.
decodeAudioData(data) ==
  [i \in 1..(Len(data) \div 2) |-> 2 * BytesInt16(data[2 * i - 1], data[2 * i])]

\* The helpers applied to a sample array (createBlob, decode,
\* decodeAudioData) or to a byte array (encode, decode, decodeAudioData).
CodecInputs ==
  {[CodecIdle EXCEPT !.stage = "samples", !.x = x] : x \in SampleArrays}
    \cup {[CodecIdle EXCEPT !.stage = "bytes", !.b = b] : b \in ByteArrays}

CodecInit == HookInit /\ HistoryInit /\ ComponentInit /\ codec \in CodecInputs

RunCreateBlob ==
  /\ codec.stage = "samples"
  /\ codec' = [codec EXCEPT !.stage = "encoded", !.b = Int16Buffer(codec.x),
                            !.s = createBlob(codec.x)]

RunEncode ==
  /\ codec.stage = "bytes"
  /\ codec' = [codec EXCEPT !.stage = "encoded", !.s = encode(codec.b)]

RunDecode ==
  /\ codec.stage = "encoded"
  /\ codec' = [codec EXCEPT !.stage = "decoded", !.d = decode(codec.s)]

RunDecodeAudioData ==
  /\ codec.stage = "decoded"
  /\ Len(codec.d) % 2 = 0
  /\ codec' = [codec EXCEPT !.stage = "audio", !.y = decodeAudioData(codec.d)]

CodecNext ==
  \/ RunCreateBlob /\ UNCHANGED <<hookVars, exceptCodec>>
  \/ RunEncode /\ UNCHANGED <<hookVars, exceptCodec>>
  \/ RunDecode /\ UNCHANGED <<hookVars, exceptCodec>>
  \/ RunDecodeAudioData /\ UNCHANGED <<hookVars, exceptCodec>>

CodecSpec == CodecInit /\ [][CodecNext]_vars

\* C23 (as claimed): every sample of [-1, 1] comes back from createBlob and
\* decodeAudioData within 1/32768 of its value.
C23_RoundTripWithinOneStep ==
  (codec.stage = "audio" /\ codec.x # <<>>) =>
    /\ Len(codec.y) = Len(codec.x)
    /\ \A i \in DOMAIN codec.x : Abs(codec.y[i] - codec.x[i]) <= 2

\* C24: decode(encode(b)) = b for every byte array b.
C24_Base64RoundTrip ==
  codec.stage \in {"decoded", "audio"} => codec.d = codec.b

\* A two-byte array, whose encoding is padded, came back from decode.
C24_Witness ==
  /\ codec.stage = "decoded"
  /\ codec.x = <<>>
  /\ codec.b = <<255, 129>>
  /\ codec.s = <<63, 56, 4, 64>>
  /\ codec.d = <<255, 129>>

\* C25 (as claimed): whatever state the hook is in, once stopSession was
\* called on the connection the handle refers to, the handle is eventually
\* released (the transport resolving every connect it does not reject and
\* acknowledging every close), so that the startSession call that follows
\* opens a new connection instead of returning at line 152.
C25_StopThenStartReconnects ==
  \A c \in Conns : (stopped /\ sessionPromiseRef = c) ~> (sessionPromiseRef # c)

\* C26: whenever connectionState is connected the handle is set and refers
\* to a connection whose open was acknowledged and whose close was not, and
\* whenever the handle is null connectionState is idle, error or
\* disconnected.
C26_StateAndHandleAgree ==
  /\ connectionState = "connected" =>
       /\ sessionPromiseRef # NULL
       /\ ws[sessionPromiseRef] \in {"open", "closing"}
  /\ sessionPromiseRef = NULL => connectionState \in {"idle", "error", "disconnected"}

\* A second connection is connected after the first one was closed and its
\* handle cleared.
C26_Witness ==
  /\ connectionState = "connected"
  /\ sessionPromiseRef = 2
  /\ ws[1] = "closed"
  /\ ws[2] = "open"

\* ---------------------------------------------------------------------
\* The fields of one message
\* ---------------------------------------------------------------------

\* Messages that carry any mix of fragments, the turn-complete signal, audio
\* of duration 1 and the interrupted signal.
OrderMessages == {m \in Messages : m.audio \in {0, 1}}

\* The hook with playback on and a client at hand, on one connection that
\* stays open.
OrderInit == Init /\ ~transcriptionOnly /\ apiKey

OrderNext ==
  \/ StartSession /\ UNCHANGED auxVars
  \/ \E c \in Conns : OnOpen(c) /\ UNCHANGED auxVars
  \/ \E c \in Conns, m \in OrderMessages : OnMessage(c, m) /\ UNCHANGED auxVars
  \/ \E s \in SourceIds : SourceEnded(s) /\ UNCHANGED auxVars

OrderSpec == OrderInit /\ [][OrderNext]_vars

\* C27 (as claimed): the fragments a message carries are part of the turn
\* emitted for the turn-complete signal of the same message, and the audio a
\* message carries is started and then stopped by the interrupted signal of
\* the same message, which leaves the active set empty.
C27_FieldOrder ==
  [][op' = "onmessage" =>
       \A c \in Conns, m \in OrderMessages :
         OnMessage(c, m) =>
           /\ m.turnComplete =>
                lastTurn' = <<Trim(inputT[c] \o m.inT), Trim(outputT[c] \o m.outT)>>
           /\ m.interrupted =>
                /\ sources' = {}
                /\ m.audio # 0 => (nSrc' = nSrc + 1 /\ nSrc' \in SrcStopped')]_vars

MaxRuns == 2         \* runs of the capture effect

Runs == 1..MaxRuns

\* The body of the effect (lines 113-142) up to the await of line 120: the
\* run r asks for the microphone.
MediaRun(r) ==
  [media EXCEPT !.nRun = r, !.active = r, !.pending = @ \cup {r}]

\* The cleanup of the effect (lines 145-153) after stopSession(): the tracks
\* of the stream in mediaStreamRef are stopped, the node in
\* scriptProcessorRef is disconnected and its context closed.  The refs hold
\* what the last granted run stored, and the cleanup leaves them as they are.
MediaCleanup(md) ==
  [md EXCEPT !.active = NULL, !.cleaned = @ \cup {md.active},
             !.streams = @ \ {md.mediaStreamRef},
             !.pipelines = @ \ {md.scriptProcessorRef}]

\* The effect runs with isApiKeySelected true (mount, or key selected).
CaptureStart ==
  /\ media.active = NULL
  /\ media.nRun < MaxRuns
  /\ media' = MediaRun(media.nRun + 1)
  /\ UNCHANGED hookVars

\* The cleanup alone: unmount, or isApiKeySelected became false.
CaptureCleanup ==
  /\ media.active # NULL
  /\ StopSession
  /\ media' = MediaCleanup(media)

\* The language changed: cleanup of the current run, then a new run.
CaptureRestart ==
  /\ media.active # NULL
  /\ media.nRun < MaxRuns
  /\ StopSession
  /\ media' = [MediaCleanup(media) EXCEPT !.nRun = media.nRun + 1,
                                          !.active = media.nRun + 1,
                                          !.pending = @ \cup {media.nRun + 1}]

\* getUserMedia of the run r resolves (lines 120-141): the stream is stored,
\* the pipeline is built and connected, and startSession() is called.
CaptureGranted(r) ==
  /\ r \in media.pending
  /\ StartSession
  /\ media' = [media EXCEPT !.pending = @ \ {r},
                            !.streams = @ \cup {r}, !.pipelines = @ \cup {r},
                            !.mediaStreamRef = r, !.scriptProcessorRef = r]

\* getUserMedia of the run r rejects: the catch of line 138 logs it.
CaptureDenied(r) ==
  /\ r \in media.pending
  /\ media' = [media EXCEPT !.pending = @ \ {r}]
  /\ UNCHANGED hookVars

\* LiveSession (transcriptionOnly false) with its hook and a transport that
\* opens and closes the connections.
CaptureInit == Init /\ ~transcriptionOnly

CaptureNext ==
  \/ CaptureStart /\ UNCHANGED exceptMedia
  \/ CaptureCleanup /\ UNCHANGED exceptMedia
  \/ CaptureRestart /\ UNCHANGED exceptMedia
  \/ \E r \in Runs : CaptureGranted(r) /\ UNCHANGED exceptMedia
  \/ \E r \in Runs : CaptureDenied(r) /\ UNCHANGED exceptMedia
  \/ \E c \in Conns : OnOpen(c) /\ UNCHANGED auxVars
  \/ \E c \in Conns : OnClose(c) /\ UNCHANGED auxVars

CaptureSpec == CaptureInit /\ [][CaptureNext]_vars

\* C29 (as claimed): once the cleanup of a run of the effect has run, the
\* stream and the pipeline of that run are released and the run starts no
\* session, also when its permission request resolves after the cleanup; and
\* the component never holds more than one stream or more than one pipeline.
C29_CleanupReleasesCapture ==
  /\ [](\A r \in media.cleaned : r \notin media.streams /\ r \notin media.pipelines)
  /\ [][\A r \in media.cleaned :
          (r \in media.pending /\ r \notin media'.pending) => op' # "startSession"]_vars
  /\ [](Cardinality(media.streams) <= 1 /\ Cardinality(media.pipelines) <= 1)

\* ---------------------------------------------------------------------
\* DrillSession: the attempts (src/components/DrillSession.tsx)
\* ---------------------------------------------------------------------

MaxAttempts == 2     \* attempts of one drill
MaxTranscript == 2   \* characters of finalTranscriptRef

\* Messages that carry a letter of the user or none, with or without the
\* turn-complete signal.
DrillMessages ==
  {m \in Messages : /\ m.audio = 0 /\ ~m.interrupted /\ m.outT = NoText
                    /\ m.inT \in {NoText, <<"a">>}
                    /\ (m.inT # NoText \/ m.turnComplete)}

\* handleStart (lines 195-201), from the idle screen or by `Try again`.
HandleStart ==
  /\ drill.state \in {"idle", "feedback"}
  /\ drill.attempt < MaxAttempts
  /\ drill' = [drill EXCEPT !.state = "preparing", !.attempt = @ + 1,
                            !.finalTranscript = <<>>, !.conn = NULL, !.from = {}]
  /\ UNCHANGED hookVars

\* The countdown reaches 0 (lines 203-219) and the recording effect runs
\* (lines 221-235): the recorder starts and startSession() is called.
EnterRecording ==
  /\ drill.state = "preparing"
  /\ StartSession
  /\ drill' = [drill EXCEPT !.state = "recording",
                            !.conn = IF nConn' # nConn THEN nConn' ELSE NULL]

\* handleStop (lines 149-157), by the button or by the drill timer.
HandleStop ==
  /\ drill.state = "recording"
  /\ drill' = [drill EXCEPT !.state = "loading"]
  /\ UNCHANGED hookVars

\* The grace timer of handleStop fires (lines 162-191): stopSession(), then
\* the trimmed transcript is what the feedback is made from.
GraceTimer ==
  /\ drill.state = "loading"
  /\ StopSession
  /\ drill' = [drill EXCEPT !.state = "feedback",
                            !.transcript = Trim(drill.finalTranscript)]

\* handleTurnComplete (lines 67-73) called by the onmessage of connection c.
DrillTurn(c, m) ==
  LET userText == lastTurn'[1]
  IN drill' = IF m.turnComplete /\ userText # NoText
              THEN [drill EXCEPT !.finalTranscript = @ \o userText \o <<" ">>,
                                 !.from = @ \cup {c}]
              ELSE drill

\* DrillSession (transcription-only) with its hook, a client at hand and a
\* transport that opens and closes the connections.
DrillSpecInit == Init /\ transcriptionOnly /\ apiKey

DrillNext ==
  \/ HandleStart /\ UNCHANGED exceptDrill
  \/ EnterRecording /\ UNCHANGED exceptDrill
  \/ HandleStop /\ UNCHANGED exceptDrill
  \/ GraceTimer /\ UNCHANGED exceptDrill
  \/ \E c \in Conns : OnOpen(c) /\ UNCHANGED auxVars
  \/ \E c \in Conns : OnClose(c) /\ UNCHANGED auxVars
  \/ \E c \in Conns, m \in DrillMessages :
       /\ Len(drill.finalTranscript) < MaxTranscript
       /\ OnMessage(c, m) /\ DrillTurn(c, m) /\ UNCHANGED exceptDrill

DrillSpec == DrillSpecInit /\ [][DrillNext]_vars

\* C30 (as claimed): every entry into the recording state creates the
\* connection of that attempt, and the transcript the feedback is made from
\* holds only turns completed on that connection.
C30_AttemptHasItsConnection ==
  /\ [][(drill.state = "preparing" /\ drill'.state = "recording")
          => (/\ "connect" \in fx'
              /\ drill'.conn = sessionPromiseRef'
              /\ ws'[drill'.conn] = "connecting")]_vars
  /\ [][(drill.state = "loading" /\ drill'.state = "feedback")
          => drill.from \subseteq {drill.conn}]_vars

====
